---- MODULE Spec2Model ----
(***************************************************************************)
(* A model of harviz's aggregation core (src/src/report.rs): per-entry     *)
(* byte resolution, host-key extraction, the nearest-rank percentile, the  *)
(* per-host grouping and the report builder.                               *)
(*                                                                         *)
(* Representation.                                                         *)
(*   Option<T>   a sequence: << >> is None, <<v>> is Some(v).              *)
(*   String      a sequence of one-character strings; Byte gives the       *)
(*               ASCII code Rust's str ordering compares.                  *)
(*   i64 / u64   integers of IntBits bits (signed / unsigned).             *)
(*   f64         non-negative multiples of one unit with MantBits          *)
(*               significant bits, rounded to nearest, ties to even.       *)
(***************************************************************************)
EXTENDS Integers, Sequences, FiniteSets, TLC

VARIABLES
    entry, bytes,                 \* entry_bytes: its argument and its result
    url, key,                     \* host_key: its argument and its result
    values, p, pct,               \* nearest_rank_percentile: arguments, result
    entries, top, group_by,       \* build_report: its arguments
    overflow_checks,              \* the build profile: are overflow checks on
    hash_order,                   \* the order HashMap::into_iter yields keys in
    report,                       \* build_report: its result
    rerun,                        \* build_report called again on a permutation
    pc                            \* "input", "done" or "panic"

vars == <<entry, bytes, url, key, values, p, pct, entries, top, group_by,
          overflow_checks, hash_order, report, rerun, pc>>

----------------------------------------------------------------------------
(* Bounds of the model.                                                    *)

IntBits == 3
MantBits == 2
MaxEntries == 3
MaxTail == 4
MaxSample == 4

----------------------------------------------------------------------------
(* Options and small helpers.                                              *)

None == << >>
Some(v) == <<v>>
Opt(S) == {None} \cup {Some(v) : v \in S}

Max(a, b) == IF a >= b THEN a ELSE b
Min(a, b) == IF a <= b THEN a ELSE b

RECURSIVE Pow2(_)
Pow2(n) == IF n = 0 THEN 1 ELSE 2 * Pow2(n - 1)

SeqsUpTo(S, n) == UNION {[1..k -> S] : k \in 0..n}

----------------------------------------------------------------------------
(* Machine integers.                                                       *)

I64Min == 0 - Pow2(IntBits - 1)
I64Max == Pow2(IntBits - 1) - 1
U64Modulus == Pow2(IntBits)
I64 == I64Min..I64Max

----------------------------------------------------------------------------
(* har.rs: the entry a HAR file deserialises to.                           *)

HarResponseContent(size) == [size |-> size]

HarEntry(u, t, body, headers, content) ==
    [time |-> t,
     request |-> [url |-> u],
     response |-> [body_size |-> body, headers_size |-> headers,
                   content |-> content]]

----------------------------------------------------------------------------
(* report.rs: pos_i64_to_u64 and entry_bytes.                              *)

pos_i64_to_u64(x) ==
    IF x # None /\ x[1] > 0 THEN x[1] ELSE 0

\* r.content.as_ref().and_then(|c| c.size)
content_size(r) ==
    IF r.content = None THEN None ELSE r.content[1].size

\* body + headers before the u64 addition is reduced or checked
entry_bytes_wide(e) ==
    LET r == e.response
        body == Max(pos_i64_to_u64(r.body_size),
                    pos_i64_to_u64(content_size(r)))
        headers == pos_i64_to_u64(r.headers_size)
    IN  body + headers

\* a slip that adds the two body sizes instead of taking the larger
Mutant_entry_bytes_adds_both(e) ==
    LET r == e.response
    IN  (pos_i64_to_u64(r.body_size) + pos_i64_to_u64(content_size(r))
            + pos_i64_to_u64(r.headers_size)) % U64Modulus

\* the value `body + headers` has when the addition does not panic
entry_bytes(e) == entry_bytes_wide(e) % U64Modulus

\* `body + headers` overflows u64
entry_bytes_overflows(e) == entry_bytes_wide(e) >= U64Modulus

----------------------------------------------------------------------------
(* f64 on the durations the report adds and divides: a value is a natural  *)
(* number of units with at most MantBits significant bits; a result that   *)
(* is not representable is rounded to the nearest value, ties to the even  *)
(* mantissa (IEEE 754 round-to-nearest-even).                              *)

RECURSIVE ExpOf(_, _)
\* the exponent e >= 0 of the binade that holds num / den
ExpOf(num, den) ==
    IF num < den * Pow2(MantBits) THEN 0 ELSE 1 + ExpOf(num, 2 * den)

RoundRat(num, den) ==
    LET ulp == Pow2(ExpOf(num, den))
        q == num \div (den * ulp)
        rem == num - q * den * ulp
        up == \/ 2 * rem > den * ulp
              \/ 2 * rem = den * ulp /\ q % 2 = 1
    IN  (IF up THEN q + 1 ELSE q) * ulp

\* a + b on f64
FAdd(a, b) == RoundRat(a + b, 1)

\* a / (n as f64) on f64
FDiv(a, n) == RoundRat(a, n)

----------------------------------------------------------------------------
(* Strings.                                                                *)

\* the ASCII codes of the characters the model's strings are made of
Byte ==
    [c \in {"-", "/", "1", ":", "<", ">", "@", "A", "S", "[", "]",
            "a", "b", "d", "h", "i", "l", "n", "o", "s", "t", "v"} |->
        CASE c = "-" -> 45 [] c = "/" -> 47 [] c = "1" -> 49 [] c = ":" -> 58
          [] c = "<" -> 60 [] c = ">" -> 62 [] c = "@" -> 64 [] c = "A" -> 65
          [] c = "S" -> 83 [] c = "[" -> 91 [] c = "]" -> 93 [] c = "a" -> 97
          [] c = "b" -> 98 [] c = "d" -> 100 [] c = "h" -> 104
          [] c = "i" -> 105 [] c = "l" -> 108 [] c = "n" -> 110
          [] c = "o" -> 111 [] c = "s" -> 115 [] c = "t" -> 116
          [] c = "v" -> 118]

RECURSIVE StrLess(_, _)
\* a < b in Rust's str ordering: lexicographic on the bytes
StrLess(a, b) ==
    IF b = << >> THEN FALSE
    ELSE IF a = << >> THEN TRUE
    ELSE IF Byte[Head(a)] # Byte[Head(b)] THEN Byte[Head(a)] < Byte[Head(b)]
    ELSE StrLess(Tail(a), Tail(b))

\* char::to_ascii_lowercase
LowerChar(c) == IF c = "A" THEN "a" ELSE IF c = "S" THEN "s" ELSE c

\* str::to_ascii_lowercase
to_ascii_lowercase(s) == [i \in 1..Len(s) |-> LowerChar(s[i])]

\* the first index at which pat occurs in s, 0 when it does not
Find(s, pat) ==
    LET hits == {i \in 1..(Len(s) - Len(pat) + 1) :
                    SubSeq(s, i, i + Len(pat) - 1) = pat}
    IN  IF hits = {} THEN 0 ELSE CHOOSE i \in hits : \A j \in hits : i <= j

\* the last index at which the character c occurs in s, 0 when it does not
FindLast(s, c) ==
    LET hits == {i \in 1..Len(s) : s[i] = c}
    IN  IF hits = {} THEN 0 ELSE CHOOSE i \in hits : \A j \in hits : i >= j

----------------------------------------------------------------------------
(* report.rs: nearest_rank_percentile. p is the rational pn / pd.          *)

\* (p * values.len() as f64).ceil() as usize
rank_of(n, pn, pd) == (pn * n + pd - 1) \div pd

\* a slip that takes the floor of p * n instead of its ceiling
Mutant_percentile_floor(vals, pn, pd) ==
    IF vals = << >> THEN 0
    ELSE LET rank == (pn * Len(vals)) \div pd
             idx == Min(Max(rank - 1, 0), Len(vals) - 1)
         IN  vals[idx + 1]

nearest_rank_percentile(vals, pn, pd) ==
    IF vals = << >> THEN 0
    ELSE LET rank == rank_of(Len(vals), pn, pd)
             \* rank.saturating_sub(1).min(values.len() - 1)
             idx == Min(Max(rank - 1, 0), Len(vals) - 1)
         IN  vals[idx + 1]

\* the p of the one call in build_top_groups: 0.95
P95Num == 19
P95Den == 20

----------------------------------------------------------------------------
(* report.rs: host_key.                                                    *)

\* "<invalid-host>"
InvalidHost ==
    <<"<", "i", "n", "v", "a", "l", "i", "d", "-", "h", "o", "s", "t", ">">>

SchemeSep == <<":", "/", "/">>

\* s.split(c).next(): the text before the first c, all of s without one
BeforeFirst(s, c) ==
    LET i == Find(s, <<c>>)
    IN  IF i = 0 THEN s ELSE SubSeq(s, 1, i - 1)

\* s.rsplit(c).next(): the text after the last c, all of s without one
AfterLast(s, c) ==
    LET i == FindLast(s, c)
    IN  IF i = 0 THEN s ELSE SubSeq(s, i + 1, Len(s))

\* the branch of host_key that strips the brackets of an IPv6 literal;
\* None stands for the early return of the sentinel
bracket_host(stripped) ==
    LET close == Find(stripped, <<"]">>)
    IN  IF close = 0 THEN None
        ELSE IF close = 1 THEN None
        ELSE Some(<<"[">> \o SubSeq(stripped, 1, close - 1) \o <<"]">>)

\* a slip that strips userinfo at the first "@" instead of the last
Mutant_host_key_first_at(u) ==
    LET sep == Find(u, SchemeSep)
        after_scheme == SubSeq(u, sep + 3, Len(u))
        authority == BeforeFirst(after_scheme, "/")
        at == Find(authority, <<"@">>)
        host_port == IF at = 0 THEN authority
                     ELSE SubSeq(authority, at + 1, Len(authority))
        host == IF host_port # << >> /\ Head(host_port) = "["
                THEN bracket_host(Tail(host_port))
                ELSE Some(BeforeFirst(host_port, ":"))
    IN  IF sep = 0 \/ authority = << >> \/ host_port = << >> THEN InvalidHost
        ELSE IF host = None \/ host = Some(<< >>) THEN InvalidHost
        ELSE to_ascii_lowercase(host[1])

\* a slip that forgets to lower-case the host
Mutant_host_key_keeps_case(u) ==
    LET sep == Find(u, SchemeSep)
        after_scheme == SubSeq(u, sep + 3, Len(u))
        authority == BeforeFirst(after_scheme, "/")
        host_port == AfterLast(authority, "@")
        host == IF host_port # << >> /\ Head(host_port) = "["
                THEN bracket_host(Tail(host_port))
                ELSE Some(BeforeFirst(host_port, ":"))
    IN  IF sep = 0 \/ authority = << >> \/ host_port = << >> THEN InvalidHost
        ELSE IF host = None \/ host = Some(<< >>) THEN InvalidHost
        ELSE host[1]

host_key(u) ==
    LET sep == Find(u, SchemeSep)
        after_scheme == SubSeq(u, sep + 3, Len(u))
        authority == BeforeFirst(after_scheme, "/")
        host_port == AfterLast(authority, "@")
        host == IF host_port # << >> /\ Head(host_port) = "["
                THEN bracket_host(Tail(host_port))
                ELSE Some(BeforeFirst(host_port, ":"))
    IN  IF sep = 0 THEN InvalidHost
        ELSE IF authority = << >> THEN InvalidHost
        ELSE IF host_port = << >> THEN InvalidHost
        ELSE IF host = None THEN InvalidHost
        ELSE IF host[1] = << >> THEN InvalidHost
        ELSE to_ascii_lowercase(host[1])

----------------------------------------------------------------------------
(* Vec::sort_by and Vec::sort_by_key: stable sorts. GoesBefore(kind, a, b) *)
(* is "the comparator answers Less for (a, b)".                            *)

\* a slip that ranks groups by total time alone, without the key tie-break
Mutant_GoesBefore_no_tiebreak(kind, a, b) ==
    CASE kind = "time_desc"  -> a.time > b.time
      [] kind = "bytes_desc" -> entry_bytes(a) > entry_bytes(b)
      [] kind = "f64_asc"    -> a < b
      [] kind = "group"      -> a.total_time_ms > b.total_time_ms

\* a slip that lets an entry overtake the entries it ties with
Mutant_GoesBefore_overtakes_ties(kind, a, b) ==
    CASE kind = "time_desc"  -> a.time >= b.time
      [] kind = "bytes_desc" -> entry_bytes(a) >= entry_bytes(b)
      [] kind = "f64_asc"    -> a < b
      [] kind = "group"      ->
            \/ a.total_time_ms > b.total_time_ms
            \/ a.total_time_ms = b.total_time_ms /\ StrLess(a.key, b.key)

GoesBefore(kind, a, b) ==
    CASE kind = "time_desc"  -> a.time > b.time
      [] kind = "bytes_desc" -> entry_bytes(a) > entry_bytes(b)
      [] kind = "f64_asc"    -> a < b
      [] kind = "group"      ->
            \/ a.total_time_ms > b.total_time_ms
            \/ a.total_time_ms = b.total_time_ms /\ StrLess(a.key, b.key)

\* x put into the sorted sequence s after every element it does not precede
InsertStable(s, x, kind) ==
    LET before == {i \in 1..Len(s) : GoesBefore(kind, x, s[i])}
        at == IF before = {} THEN Len(s) + 1
              ELSE CHOOSE i \in before : \A j \in before : i <= j
    IN  SubSeq(s, 1, at - 1) \o <<x>> \o SubSeq(s, at, Len(s))

RECURSIVE StableSort(_, _)
StableSort(s, kind) ==
    IF s = << >> THEN << >>
    ELSE InsertStable(StableSort(SubSeq(s, 1, Len(s) - 1), kind),
                      s[Len(s)], kind)

\* iter.take(n) of a sequence
Take(s, n) == SubSeq(s, 1, Min(n, Len(s)))

RECURSIVE SumTime(_)
\* entries.iter().map(|e| e.time).sum(): f64 additions, left to right
SumTime(s) ==
    IF s = << >> THEN 0
    ELSE FAdd(SumTime(SubSeq(s, 1, Len(s) - 1)), s[Len(s)].time)

RECURSIVE SumBytesWide(_)
\* the sum of entry_bytes before the u64 additions are reduced or checked
SumBytesWide(s) ==
    IF s = << >> THEN 0
    ELSE SumBytesWide(SubSeq(s, 1, Len(s) - 1)) + entry_bytes(s[Len(s)])

----------------------------------------------------------------------------
(* report.rs: build_top_groups. order is the sequence in which the HashMap *)
(* yields its keys, which the standard library leaves unspecified.         *)

GroupKeys(es) == {host_key(es[i].request.url) : i \in 1..Len(es)}

\* the entries the loop adds to the accumulator of key k, in input order
GroupMembers(es, k) ==
    LET InGroup(e) == host_key(e.request.url) = k
    IN  SelectSeq(es, InGroup)

\* GroupAccumulator of key k once the loop has run
GroupAccumulator(es, k) ==
    LET m == GroupMembers(es, k)
    IN  [count |-> Len(m),
         total_time_ms |-> SumTime(m),
         total_bytes |-> SumBytesWide(m) % U64Modulus,
         times |-> [i \in 1..Len(m) |-> m[i].time]]

\* a slip that takes the percentile of the times in input order, unsorted
Mutant_GroupRow_unsorted_times(k, acc) ==
    [key |-> k,
     count |-> acc.count,
     total_time_ms |-> acc.total_time_ms,
     avg_time_ms |-> FDiv(acc.total_time_ms, acc.count),
     p95_time_ms |-> nearest_rank_percentile(acc.times, P95Num, P95Den),
     total_bytes |-> acc.total_bytes]

GroupRow(k, acc) ==
    [key |-> k,
     count |-> acc.count,
     total_time_ms |-> acc.total_time_ms,
     avg_time_ms |-> FDiv(acc.total_time_ms, acc.count),
     p95_time_ms |-> nearest_rank_percentile(
                        StableSort(acc.times, "f64_asc"), P95Num, P95Den),
     total_bytes |-> acc.total_bytes]

\* a slip that returns every group, ignoring top
Mutant_build_top_groups_no_take(es, n, gb, order) ==
    IF gb = None THEN << >>
    ELSE StableSort([i \in 1..Len(order) |->
                        GroupRow(order[i], GroupAccumulator(es, order[i]))],
                    "group")

build_top_groups(es, n, gb, order) ==
    IF gb = None THEN << >>
    ELSE LET rows == [i \in 1..Len(order) |->
                        GroupRow(order[i], GroupAccumulator(es, order[i]))]
         IN  Take(StableSort(rows, "group"), n)

\* `acc.total_bytes += entry_bytes(entry)` overflows u64 for some key
group_bytes_overflow(es, gb) ==
    /\ gb # None
    /\ \E k \in GroupKeys(es) :
          SumBytesWide(GroupMembers(es, k)) >= U64Modulus

----------------------------------------------------------------------------
(* report.rs: build_report.                                                *)

ReportRow(e) ==
    [url |-> e.request.url, time_ms |-> e.time, bytes |-> entry_bytes(e)]

\* a slip that takes `top` rows without clamping it to the entry count
Mutant_top_returned_unclamped(n, total) == n

top_returned_of(n, total) == Min(n, total)

build_report(es, n, gb, order) ==
    LET total == Len(es)
        by_time == StableSort(es, "time_desc")
        by_bytes == StableSort(es, "bytes_desc")
        top_returned == top_returned_of(n, total)
    IN  [entries |-> total,
         total_time_ms |-> SumTime(es),
         total_bytes |-> SumBytesWide(es) % U64Modulus,
         top_requested |-> n,
         top_returned |-> top_returned,
         group_by |-> gb,
         top_slowest |-> [i \in 1..Len(Take(by_time, top_returned)) |->
                            ReportRow(by_time[i])],
         top_largest |-> [i \in 1..Len(Take(by_bytes, top_returned)) |->
                            ReportRow(by_bytes[i])],
         top_groups |-> build_top_groups(es, n, gb, order)]

\* some u64 addition of build_report overflows: with overflow checks on
\* (a debug build) the call panics there, without them the sum wraps
report_overflows(es, gb) ==
    \/ \E i \in 1..Len(es) : entry_bytes_overflows(es[i])
    \/ SumBytesWide(es) >= U64Modulus
    \/ group_bytes_overflow(es, gb)

----------------------------------------------------------------------------
(* Specification SpecBytes: entry_bytes applied to every combination of    *)
(* size fields.                                                            *)

ContentPool == Opt({HarResponseContent(s) : s \in Opt(I64)})

InitBytes ==
    /\ \E body \in Opt(I64), headers \in Opt(I64), content \in ContentPool :
          entry = Some(HarEntry(<<"a">>, 1, body, headers, content))
    /\ overflow_checks \in BOOLEAN
    /\ bytes = None /\ pc = "input"
    /\ url = None /\ key = None
    /\ values = None /\ p = None /\ pct = None
    /\ entries = None /\ top = None /\ group_by = None
    /\ hash_order = None /\ report = None /\ rerun = None

EntryBytes ==
    /\ pc = "input" /\ entry # None
    /\ IF overflow_checks /\ entry_bytes_overflows(entry[1])
       THEN pc' = "panic" /\ bytes' = None
       ELSE pc' = "done" /\ bytes' = Some(entry_bytes(entry[1]))
    /\ UNCHANGED <<entry, url, key, values, p, pct, entries, top, group_by,
                   overflow_checks, hash_order, report, rerun>>

NextBytes == EntryBytes

SpecBytes == InitBytes /\ [][NextBytes]_vars

----------------------------------------------------------------------------
(* Specifications SpecReport and SpecGroups: build_report applied to every *)
(* sequence of at most MaxEntries entries of a pool, every top up to       *)
(* MaxTop, both grouping options, both build profiles and every order the  *)
(* HashMap may yield its keys in. SpecReport varies the sizes, SpecGroups  *)
(* the hosts.                                                              *)

\* "s://a/" and "bad"
ReportUrlPool ==
    {<<"s", ":", "/", "/", "a", "/">>,
     <<"b", "a", "d">>}

\* "s://a/", "S://A:1", "s://b" and "bad"
GroupUrlPool ==
    {<<"s", ":", "/", "/", "a", "/">>,
     <<"S", ":", "/", "/", "A", ":", "1">>,
     <<"s", ":", "/", "/", "b">>,
     <<"b", "a", "d">>}

\* two durations whose f64 sum is rounded
TimePool == {1, Pow2(MantBits)}

\* <<bodySize, headersSize, content>>: nothing usable, and the largest sizes
ReportSizePool ==
    {<<None, Some(0 - 1), Some(HarResponseContent(None))>>,
     <<Some(I64Max), Some(I64Max), Some(HarResponseContent(Some(1)))>>}

\* a body of the largest size and nothing else
GroupSizePool ==
    {<<Some(I64Max), None, None>>}

EntriesOf(urls, times, sizes) ==
    {HarEntry(u, t, sz[1], sz[2], sz[3]) :
        u \in urls, t \in times, sz \in sizes}

ReportPool == EntriesOf(ReportUrlPool, TimePool, ReportSizePool)

GroupPool == EntriesOf(GroupUrlPool, TimePool, GroupSizePool)

MaxTop == MaxEntries

GroupByPool == Opt({"Host"})

\* every sequence that lists each element of the set S once
Perms(S) ==
    {f \in [1..Cardinality(S) -> S] : \A x \in S : \E i \in DOMAIN f : f[i] = x}

InitBuild(pool) ==
    /\ entries \in SeqsUpTo(pool, MaxEntries)
    /\ overflow_checks \in BOOLEAN
    /\ top = None /\ group_by = None /\ hash_order = None /\ report = None
    /\ rerun = None
    /\ pc = "input"
    /\ entry = None /\ bytes = None
    /\ url = None /\ key = None
    /\ values = None /\ p = None /\ pct = None

InitReport == InitBuild(ReportPool)

InitGroups == InitBuild(GroupPool)

BuildReport ==
    /\ pc = "input"
    /\ \E n \in 0..MaxTop, gb \in GroupByPool :
        \E order \in (IF gb = None THEN {<< >>} ELSE Perms(GroupKeys(entries))) :
          /\ top' = n
          /\ group_by' = gb
          /\ hash_order' = order
          /\ IF overflow_checks /\ report_overflows(entries, gb)
             THEN pc' = "panic" /\ report' = None
             ELSE pc' = "done" /\ report' = build_report(entries, n, gb, order)
    /\ UNCHANGED <<entry, bytes, url, key, values, p, pct, entries,
                   overflow_checks, rerun>>

NextReport == BuildReport

SpecReport == InitReport /\ [][NextReport]_vars

SpecGroups == InitGroups /\ [][NextReport]_vars

----------------------------------------------------------------------------
(* C1: entry_bytes(e) = max(norm(bodySize), norm(contentSize)) +           *)
(* norm(headersSize) over the unbounded integers, where norm(x) is x for a *)
(* present x > 0 and 0 for an absent, zero or negative x; an absent        *)
(* content object counts as an absent contentSize. The call always         *)
(* returns: the u64 addition cannot overflow.                              *)

NormSize(x) == IF x = None THEN 0 ELSE IF x[1] > 0 THEN x[1] ELSE 0

ClaimContentSize(e) ==
    IF e.response.content = None THEN None ELSE e.response.content[1].size

C1_EntryBytesFormula ==
    pc # "input" /\ entry # None =>
        /\ pc = "done"
        /\ bytes = Some(Max(NormSize(entry[1].response.body_size),
                            NormSize(ClaimContentSize(entry[1])))
                        + NormSize(entry[1].response.headers_size))

\* both body fields positive and different, headers positive, result computed
C1_Witness ==
    /\ pc = "done" /\ entry # None /\ bytes # None
    /\ entry[1].response.body_size = Some(I64Max)
    /\ entry[1].response.content = Some(HarResponseContent(Some(1)))
    /\ entry[1].response.headers_size = Some(I64Max)
    /\ bytes = Some(2 * I64Max)

----------------------------------------------------------------------------
(* What the claims about build_report are stated with.                     *)

\* the byte count of C1, over the unbounded integers
ClaimBytes(e) ==
    Max(NormSize(e.response.body_size), NormSize(ClaimContentSize(e)))
        + NormSize(e.response.headers_size)

RECURSIVE FoldTime(_, _)
\* the f64 sum of the durations of s, added to acc one after the other
FoldTime(acc, s) ==
    IF s = << >> THEN acc ELSE FoldTime(FAdd(acc, Head(s).time), Tail(s))

RECURSIVE FoldBytes(_, _)
\* the sum of the byte counts of s over the unbounded integers
FoldBytes(acc, s) ==
    IF s = << >> THEN acc ELSE FoldBytes(acc + ClaimBytes(Head(s)), Tail(s))

\* the place of element i when ks is stably sorted in descending order
PlaceDesc(ks, i) ==
    1 + Cardinality({j \in 1..Len(ks) : ks[j] > ks[i]})
      + Cardinality({j \in 1..(i - 1) : ks[j] = ks[i]})

\* the place of element i when ks is stably sorted in ascending order
PlaceAsc(ks, i) ==
    1 + Cardinality({j \in 1..Len(ks) : ks[j] < ks[i]})
      + Cardinality({j \in 1..(i - 1) : ks[j] = ks[i]})

\* the indices of ks in stable descending order of their keys
OrderDesc(ks) ==
    [q \in 1..Len(ks) |-> CHOOSE i \in 1..Len(ks) : PlaceDesc(ks, i) = q]

\* ks sorted ascending
SortedAsc(ks) ==
    [q \in 1..Len(ks) |-> ks[CHOOSE i \in 1..Len(ks) : PlaceAsc(ks, i) = q]]

ClaimRow(e) ==
    [url |-> e.request.url, time_ms |-> e.time, bytes |-> ClaimBytes(e)]

TimesOf(es) == [i \in 1..Len(es) |-> es[i].time]
BytesOf(es) == [i \in 1..Len(es) |-> ClaimBytes(es[i])]

\* the first m elements of es stably sorted in descending order of ks, as rows
ExpectedTop(es, ks, m) ==
    [q \in 1..m |-> ClaimRow(es[OrderDesc(ks)[q]])]

Done == pc = "done" /\ report # None

----------------------------------------------------------------------------
(* C2: the report has top_requested = top, top_returned = min(top, number  *)
(* of entries) and len(top_slowest) = len(top_largest) = top_returned,     *)
(* with or without grouping; when top >= the number of entries both lists  *)
(* have exactly one row per entry.                                         *)

C2_TopCounts ==
    Done =>
        /\ report.top_requested = top
        /\ report.top_returned = Min(top, Len(entries))
        /\ Len(report.top_slowest) = report.top_returned
        /\ Len(report.top_largest) = report.top_returned
        /\ top >= Len(entries) =>
              /\ Len(report.top_slowest) = Len(entries)
              /\ Len(report.top_largest) = Len(entries)

\* more rows requested than there are entries, with grouping
C2_Witness ==
    /\ Done
    /\ Len(entries) = 2 /\ top = 3 /\ group_by = Some("Host")
    /\ Len(report.top_slowest) = 2

----------------------------------------------------------------------------
(* C3: top_slowest is the first top_returned elements of the entries       *)
(* stably sorted in descending order of time, top_largest the same for     *)
(* entry_bytes: keys are non-increasing along each list, an entry left out *)
(* has a key no greater than every entry kept, entries with equal keys     *)
(* keep their input order, and every row carries the url, time and         *)
(* entry_bytes of its entry.                                               *)

NonIncreasing(ks) == \A i \in 1..(Len(ks) - 1) : ks[i] >= ks[i + 1]

\* the keys of the entries beyond the first m in stable descending order
LeftOut(ks, m) == {ks[OrderDesc(ks)[q]] : q \in (m + 1)..Len(ks)}

C3_TopLists ==
    Done =>
        LET m == Min(top, Len(entries))
            slow == report.top_slowest
            large == report.top_largest
        IN  /\ slow = ExpectedTop(entries, TimesOf(entries), m)
            /\ large = ExpectedTop(entries, BytesOf(entries), m)
            /\ NonIncreasing([i \in 1..Len(slow) |-> slow[i].time_ms])
            /\ NonIncreasing([i \in 1..Len(large) |-> large[i].bytes])
            /\ \A i \in 1..Len(slow) :
                  \A k \in LeftOut(TimesOf(entries), m) : k <= slow[i].time_ms
            /\ \A i \in 1..Len(large) :
                  \A k \in LeftOut(BytesOf(entries), m) : k <= large[i].bytes

\* three entries, the first two tie on time and on bytes and differ in url,
\* the third is slower and smaller; two rows are kept
C3_Witness ==
    /\ Done
    /\ Len(entries) = 3 /\ top = 2
    /\ entries[1].time = entries[2].time
    /\ entries[3].time > entries[1].time
    /\ ClaimBytes(entries[1]) = ClaimBytes(entries[2])
    /\ ClaimBytes(entries[3]) < ClaimBytes(entries[1])
    /\ entries[1].request.url # entries[2].request.url
    /\ report.top_slowest[2].url = entries[1].request.url
    /\ report.top_largest[1].url = entries[1].request.url
    /\ report.top_largest[2].url = entries[2].request.url

----------------------------------------------------------------------------
(* C4: build_report returns entries = the number of entries,               *)
(* total_time_ms = the sum of the entry times and total_bytes = the sum of *)
(* entry_bytes over all entries, whatever top and the grouping option; for *)
(* no entries all three are 0 and the three lists are empty.               *)

C4_Totals ==
    pc # "input" =>
        /\ Done
        /\ report.entries = Len(entries)
        /\ report.total_time_ms = FoldTime(0, entries)
        /\ report.total_bytes = FoldBytes(0, entries)
        /\ entries = << >> =>
              /\ report.entries = 0
              /\ report.total_time_ms = 0
              /\ report.total_bytes = 0
              /\ report.top_slowest = << >>
              /\ report.top_largest = << >>
              /\ report.top_groups = << >>

\* C4 as built: what build_report does return: the byte total reduced modulo 2^64, and
\* only when overflow checks are off or no addition overflows
C4_TotalsAsBuilt ==
    /\ pc = "panic" => overflow_checks /\ FoldBytes(0, entries) >= U64Modulus
    /\ Done =>
        /\ report.entries = Len(entries)
        /\ report.total_time_ms = FoldTime(0, entries)
        /\ report.total_bytes = FoldBytes(0, entries) % U64Modulus
        /\ FoldBytes(0, entries) < U64Modulus =>
              report.total_bytes = FoldBytes(0, entries)

----------------------------------------------------------------------------
(* What the claims about the groups are stated with.                       *)

Grouped == Done /\ group_by = Some("Host")

\* the entries whose host key is k, in input order
EntriesOfKey(k) ==
    LET HasKey(e) == host_key(e.request.url) = k
    IN  SelectSeq(entries, HasKey)

DistinctKeys == {host_key(entries[i].request.url) : i \in 1..Len(entries)}

\* x is an f64 of the model
IsF64(x) ==
    \/ x < Pow2(MantBits)
    \/ \E e \in 1..x : x % Pow2(e) = 0 /\ x \div Pow2(e) < Pow2(MantBits)

\* q is total / count as f64 division gives it: no f64 lies nearer to the
\* exact quotient
IsQuotient(q, total, count) ==
    /\ IsF64(q)
    /\ LET err == IF q * count >= total THEN q * count - total
                  ELSE total - q * count
       IN  \A x \in 0..(total + 1) :
              IsF64(x) =>
                 err <= (IF x * count >= total THEN x * count - total
                         ELSE total - x * count)

\* row a is ranked before row b: more total time, or as much and the
\* lesser key
RankedBefore(ta, ka, tb, kb) == ta > tb \/ (ta = tb /\ StrLess(ka, kb))

----------------------------------------------------------------------------
(* C5: grouped by host, every emitted row with key k has count = the       *)
(* number of entries whose host key is k (so count >= 1), total_time_ms =  *)
(* the sum of their times, total_bytes = the sum of their entry_bytes,     *)
(* avg_time_ms = total_time_ms / count and p95_time_ms = the nearest-rank  *)
(* percentile at 0.95 of their times sorted ascending; no two rows share a *)
(* key.                                                                    *)

RowMatches(row, sumBytes) ==
    LET m == EntriesOfKey(row.key)
    IN  /\ row.count = Len(m)
        /\ row.count >= 1
        /\ row.total_time_ms = FoldTime(0, m)
        /\ row.total_bytes = sumBytes
        /\ IsQuotient(row.avg_time_ms, row.total_time_ms, row.count)
        /\ row.p95_time_ms =
              nearest_rank_percentile(SortedAsc(TimesOf(m)), P95Num, P95Den)

DistinctRowKeys(rows) ==
    \A i, j \in 1..Len(rows) : i # j => rows[i].key # rows[j].key

C5_GroupRows ==
    pc # "input" /\ group_by = Some("Host") =>
        /\ Done
        /\ \A i \in 1..Len(report.top_groups) :
              RowMatches(report.top_groups[i],
                         FoldBytes(0, EntriesOfKey(report.top_groups[i].key)))
        /\ DistinctRowKeys(report.top_groups)

\* C5 as built: what the rows do hold: the byte total reduced modulo 2^64
C5_GroupRowsAsBuilt ==
    Grouped =>
        /\ \A i \in 1..Len(report.top_groups) :
              RowMatches(report.top_groups[i],
                         FoldBytes(0, EntriesOfKey(report.top_groups[i].key))
                            % U64Modulus)
        /\ DistinctRowKeys(report.top_groups)

----------------------------------------------------------------------------
(* C6: top_groups is ordered by total_time_ms descending, ties broken by   *)
(* the ascending byte order of the key: of two adjacent rows the first has *)
(* more total time, or as much and the lesser key. The order is strict, so *)
(* the list is the same whatever order the hash map yields the groups in.  *)

C6_GroupOrder ==
    Grouped =>
        LET rows == report.top_groups
        IN  /\ \A i \in 1..(Len(rows) - 1) :
                  RankedBefore(rows[i].total_time_ms, rows[i].key,
                               rows[i + 1].total_time_ms, rows[i + 1].key)
            /\ \A order \in Perms(DistinctKeys) :
                  build_top_groups(entries, top, group_by, order) = rows

\* two groups tie on total time and the hash map yields the greater key
\* first; both are emitted, the lesser key first
C6_Witness ==
    /\ Grouped
    /\ Len(hash_order) = 2 /\ Len(report.top_groups) = 2
    /\ StrLess(hash_order[2], hash_order[1])
    /\ report.top_groups[1].total_time_ms = report.top_groups[2].total_time_ms
    /\ report.top_groups[1].key = hash_order[2]

----------------------------------------------------------------------------
(* C7: top_groups is empty when no grouping is requested; grouped by host  *)
(* its length is min(top, number of distinct host keys) and its rows are   *)
(* the highest-ranked groups.                                              *)

C7_GroupCount ==
    Done =>
        LET rows == report.top_groups
            emitted == {rows[i].key : i \in 1..Len(rows)}
        IN  /\ group_by = None => rows = << >>
            /\ group_by = Some("Host") =>
                  /\ Len(rows) = Min(top, Cardinality(DistinctKeys))
                  /\ emitted \subseteq DistinctKeys
                  /\ \A i \in 1..Len(rows) : \A k \in DistinctKeys \ emitted :
                        RankedBefore(rows[i].total_time_ms, rows[i].key,
                                     FoldTime(0, EntriesOfKey(k)), k)

\* three groups, two rows asked for: the last-ranked group is left out
C7_Witness ==
    /\ Grouped
    /\ Cardinality(DistinctKeys) = 3 /\ top = 2
    /\ Len(report.top_groups) = 2

----------------------------------------------------------------------------
(* Specification SpecPct: nearest_rank_percentile applied to every sample  *)
(* of at most MaxSample values, sorted or not, and every p = k / 20 in     *)
(* (0, 1].                                                                 *)

SamplePool == 1..3

\* <<pn, pd>> stands for p = pn / pd
PPool == {<<k, P95Den>> : k \in 1..P95Den}

InitPct ==
    /\ values \in SeqsUpTo(SamplePool, MaxSample)
    /\ p \in PPool
    /\ pct = None /\ pc = "input"
    /\ overflow_checks \in BOOLEAN
    /\ entry = None /\ bytes = None
    /\ url = None /\ key = None
    /\ entries = None /\ top = None /\ group_by = None
    /\ hash_order = None /\ report = None /\ rerun = None

Percentile ==
    /\ pc = "input" /\ p # None
    /\ pct' = Some(nearest_rank_percentile(values, p[1], p[2]))
    /\ pc' = "done"
    /\ UNCHANGED <<entry, bytes, url, key, values, p, entries, top, group_by,
                   overflow_checks, hash_order, report, rerun>>

NextPct == Percentile

SpecPct == InitPct /\ [][NextPct]_vars

----------------------------------------------------------------------------
(* C10: nearest_rank_percentile(values, p) with 0 < p <= 1 is 0 for an     *)
(* empty sample and otherwise the value at 0-based index rank - 1, where   *)
(* rank = ceil(p * n) clamped to [1, n]; the result is an element of the   *)
(* sample; ([10,20,30], 0.95) gives 30 and ([1,2,3,4], 0.5) gives 2. The   *)
(* argument is read as given, not sorted.                                  *)

\* the least integer r with r >= pn * n / pd
CeilOf(n, pn, pd) ==
    CHOOSE r \in 0..(pn * n) :
        /\ r * pd >= pn * n
        /\ \A q \in 0..(pn * n) : q * pd >= pn * n => r <= q

ClampRank(r, n) == IF r < 1 THEN 1 ELSE IF r > n THEN n ELSE r

C10_NearestRank ==
    /\ pc = "done" /\ pct # None =>
        /\ values = << >> => pct = Some(0)
        /\ values # << >> =>
              /\ pct = Some(values[ClampRank(CeilOf(Len(values), p[1], p[2]),
                                            Len(values))])
              /\ \E i \in 1..Len(values) : pct = Some(values[i])
    /\ nearest_rank_percentile(<<10, 20, 30>>, 19, 20) = 30
    /\ nearest_rank_percentile(<<1, 2, 3, 4>>, 1, 2) = 2
    /\ nearest_rank_percentile(<< >>, 19, 20) = 0

\* an unsorted sample at p = 0.95: the last value as given, not the greatest
C10_Witness ==
    /\ pc = "done"
    /\ values = <<3, 1, 2>> /\ p = <<P95Num, P95Den>>
    /\ pct = Some(2)

----------------------------------------------------------------------------
(* Specification SpecHost: host_key applied to every string of at most     *)
(* MaxTail characters of UrlAlphabet, bare and behind the scheme "A://",   *)
(* and then build_report grouping that URL together with companions: a URL *)
(* without "://" and a URL whose host text is the sentinel itself.         *)

UrlAlphabet == {"A", "1", ":", "/", "@", "[", "]"}

SchemePool == {<< >>, <<"A", ":", "/", "/">>}

UrlFamily ==
    {pre \o t : pre \in SchemePool, t \in SeqsUpTo(UrlAlphabet, MaxTail)}

\* "bad"
BadUrl == <<"b", "a", "d">>

\* "A://<invalid-host>"
SentinelHostUrl == <<"A", ":", "/", "/">> \o InvalidHost

CompanionPool ==
    {<< >>, <<BadUrl>>, <<SentinelHostUrl>>, <<BadUrl, SentinelHostUrl>>}

\* an entry of one unit of time and no size data
PlainEntry(u) == HarEntry(u, 1, None, None, None)

InitHost ==
    /\ url \in UrlFamily
    /\ key = None /\ pc = "input"
    /\ overflow_checks = FALSE      \* no entry of this run has a size to add
    /\ entry = None /\ bytes = None
    /\ values = None /\ p = None /\ pct = None
    /\ entries = None /\ top = None /\ group_by = None
    /\ hash_order = None /\ report = None /\ rerun = None

HostKey ==
    /\ pc = "input" /\ key = None
    /\ key' = Some(host_key(url))
    /\ pc' = "keyed"
    /\ UNCHANGED <<entry, bytes, url, values, p, pct, entries, top, group_by,
                   overflow_checks, hash_order, report, rerun>>

GroupHosts ==
    /\ pc = "keyed"
    /\ \E companions \in CompanionPool :
        LET es == <<PlainEntry(url)>>
                    \o [i \in 1..Len(companions) |-> PlainEntry(companions[i])]
        IN  \E order \in Perms(GroupKeys(es)) :
              /\ entries' = es
              /\ top' = Len(es)
              /\ group_by' = Some("Host")
              /\ hash_order' = order
              /\ report' = build_report(es, Len(es), Some("Host"), order)
              /\ pc' = "done"
    /\ UNCHANGED <<entry, bytes, url, key, values, p, pct, overflow_checks,
                   rerun>>

NextHost == HostKey \/ GroupHosts

SpecHost == InitHost /\ [][NextHost]_vars

----------------------------------------------------------------------------
(* What the claims about host_key are stated with.                         *)

Has(s, c) == \E i \in 1..Len(s) : s[i] = c

HasSep(s) == \E i \in 1..(Len(s) - 2) : SubSeq(s, i, i + 2) = SchemeSep

\* the text between the first "://" of u and the next "/"
AuthorityOf(u) ==
    LET i == CHOOSE k \in 1..(Len(u) - 2) :
                /\ SubSeq(u, k, k + 2) = SchemeSep
                /\ \A j \in 1..(k - 1) : SubSeq(u, j, j + 2) # SchemeSep
        rest == SubSeq(u, i + 3, Len(u))
        stops == {k \in 1..Len(rest) : rest[k] = "/"}
    IN  IF stops = {} THEN rest
        ELSE SubSeq(rest, 1, (CHOOSE k \in stops : \A j \in stops : k <= j) - 1)

\* the text after the last "@" of s
AfterLastAt(s) ==
    LET ats == {k \in 1..Len(s) : s[k] = "@"}
    IN  IF ats = {} THEN s
        ELSE SubSeq(s, (CHOOSE k \in ats : \A j \in ats : k >= j) + 1, Len(s))

\* the five cases in which C8 says the sentinel is returned
SentinelCase(u) ==
    \/ ~HasSep(u)
    \/ /\ HasSep(u)
       /\ LET a == AuthorityOf(u)
              h == AfterLastAt(a)
          IN  \/ a = << >>
              \/ h = << >>
              \/ /\ h # << >> /\ h[1] = "["
                 /\ \/ ~Has(h, "]")
                    \/ Len(h) >= 2 /\ h[2] = "]"
              \/ h # << >> /\ h[1] = ":"

SentinelEntries == {i \in 1..Len(entries) : SentinelCase(entries[i].request.url)}

SentinelRows ==
    {i \in 1..Len(report.top_groups) : report.top_groups[i].key = InvalidHost}

----------------------------------------------------------------------------
(* C8: host_key returns a non-empty string for every input. It returns     *)
(* "<invalid-host>" when the URL has no "://", when the text between the   *)
(* first "://" and the next "/" is empty, when the text after the last "@" *)
(* of that authority is empty, when that text starts with "[" and has no   *)
(* "]" or nothing between the brackets, or when the text before its first  *)
(* ":" is empty. Grouped by host, all entries with such URLs are in one    *)
(* group of key "<invalid-host>".                                          *)

C8_KeyPart ==
    key # None =>
        /\ key[1] # << >>
        /\ SentinelCase(url) => key = Some(InvalidHost)

\* C8 as claimed: the count of that group is the number of those entries
C8_SentinelGroupCountsOnlyThose ==
    /\ C8_KeyPart
    /\ Done /\ SentinelEntries # {} =>
          /\ Cardinality(SentinelRows) = 1
          /\ \A i \in SentinelRows :
                report.top_groups[i].count = Cardinality(SentinelEntries)

\* C8 as amended: the count of that group is the number of entries whose host
\* key is the sentinel, which holds those entries and any entry whose host
\* text is "<invalid-host>" itself
C8_SentinelGroup ==
    /\ C8_KeyPart
    /\ Done /\ SentinelEntries # {} =>
          /\ Cardinality(SentinelRows) = 1
          /\ \A j \in SentinelEntries :
                host_key(entries[j].request.url) = InvalidHost
          /\ \A i \in SentinelRows :
                report.top_groups[i].count =
                    Cardinality({j \in 1..Len(entries) :
                        host_key(entries[j].request.url) = InvalidHost})

\* "A://[" (a bracket never closed) grouped with "bad" (no "://"): one
\* group of two under the sentinel
C8_Witness ==
    /\ Done
    /\ url = <<"A", ":", "/", "/", "[">>
    /\ key = Some(InvalidHost)
    /\ Len(entries) = 2 /\ entries[2].request.url = BadUrl
    /\ Len(report.top_groups) = 1
    /\ report.top_groups[1].key = InvalidHost
    /\ report.top_groups[1].count = 2

----------------------------------------------------------------------------
(* C9: for a URL of the form scheme "://" [userinfo "@"] host [":" port]   *)
(* ["/" rest], with host non-empty, not starting with "[" and free of "/", *)
(* "@" and ":", and userinfo free of "/", host_key returns host lower-     *)
(* cased; when the host part is "[" v6 "]" with v6 non-empty it returns    *)
(* "[" v6 "]" lower-cased, whatever follows the "]". Hence URLs that       *)
(* differ only in letter case get the same key.                            *)
(*                                                                         *)
(* A reading of u in that form is given by three indices: "://" starts at  *)
(* s, the host part is u[hs..he].                                          *)

\* u[hs] follows "://" directly, or an "@" that ends a userinfo without "/"
UserinfoOk(u, s, hs) ==
    \/ hs = s + 3
    \/ /\ hs > s + 3
       /\ u[hs - 1] = "@"
       /\ ~Has(SubSeq(u, s + 3, hs - 2), "/")

PlainForm(u, s, hs, he) ==
    /\ SubSeq(u, s, s + 2) = SchemeSep
    /\ UserinfoOk(u, s, hs)
    /\ LET host == SubSeq(u, hs, he)
       IN  /\ host[1] # "["
           /\ ~Has(host, "/") /\ ~Has(host, "@") /\ ~Has(host, ":")
    /\ he = Len(u) \/ u[he + 1] = ":" \/ u[he + 1] = "/"

BracketForm(u, s, hs, he) ==
    /\ SubSeq(u, s, s + 2) = SchemeSep
    /\ UserinfoOk(u, s, hs)
    /\ he >= hs + 2
    /\ u[hs] = "[" /\ u[he] = "]"

\* the text of u after index i up to the next "/"
UpToSlash(u, i) ==
    LET stops == {k \in (i + 1)..Len(u) : u[k] = "/"}
    IN  IF stops = {} THEN SubSeq(u, i + 1, Len(u))
        ELSE SubSeq(u, i + 1,
                    (CHOOSE k \in stops : \A j \in stops : k <= j) - 1)

\* the scheme u[1..s-1] holds no "://" of its own
SchemeOk(u, s) == \A j \in 1..(s - 1) : SubSeq(u, j, j + 2) # SchemeSep

PlainFormAmended(u, s, hs, he) ==
    /\ PlainForm(u, s, hs, he)
    /\ SchemeOk(u, s)
    /\ ~Has(UpToSlash(u, he), "@")

BracketFormAmended(u, s, hs, he) ==
    /\ BracketForm(u, s, hs, he)
    /\ SchemeOk(u, s)
    /\ LET v6 == SubSeq(u, hs + 1, he - 1)
       IN  ~Has(v6, "/") /\ ~Has(v6, "@") /\ ~Has(v6, "]")
    /\ ~Has(UpToSlash(u, he), "@")

Readings(u) ==
    {r \in (1..Len(u)) \X (1..Len(u)) \X (1..Len(u)) :
        r[1] + 3 <= r[2] /\ r[2] <= r[3]}

\* C9 as claimed: every reading of the URL in that form gives the key
C9_HostOfEveryReading ==
    key # None =>
        \A r \in Readings(url) :
            PlainForm(url, r[1], r[2], r[3])
                \/ BracketForm(url, r[1], r[2], r[3])
            => key = Some(to_ascii_lowercase(SubSeq(url, r[2], r[3])))

\* C9 as amended: the scheme holds no "://", the port no "@", v6 none of "/",
\* "@" and "]", and no "@" stands between the "]" and the next "/"
C9_HostOfForm ==
    key # None =>
        \A r \in Readings(url) :
            PlainFormAmended(url, r[1], r[2], r[3])
                \/ BracketFormAmended(url, r[1], r[2], r[3])
            => /\ key = Some(to_ascii_lowercase(SubSeq(url, r[2], r[3])))
               /\ host_key(to_ascii_lowercase(url)) = key[1]

\* "A://1@A/": userinfo "1", host "A", path "/"; the key is "a"
C9_Witness ==
    /\ url = <<"A", ":", "/", "/", "1", "@", "A", "/">>
    /\ key = Some(<<"a">>)
    /\ PlainFormAmended(url, 2, 7, 7)

----------------------------------------------------------------------------
(* Specification SpecPermute: build_report grouped by host, then called    *)
(* again with the same top on a permutation of the same entries. The       *)
(* second call has its own HashMap, so its own iteration order.            *)

\* "s://a/" and "s://b"
PermuteUrlPool ==
    {<<"s", ":", "/", "/", "a", "/">>,
     <<"s", ":", "/", "/", "b">>}

PermutePool == EntriesOf(PermuteUrlPool, TimePool, GroupSizePool)

InitPermute == InitBuild(PermutePool)

\* es in the order perm lists its indices in
Permuted(es, perm) == [i \in 1..Len(es) |-> es[perm[i]]]

Rerun ==
    /\ pc \in {"done", "panic"} /\ rerun = None
    /\ group_by = Some("Host")
    /\ \E perm \in Perms(1..Len(entries)) :
        LET es == Permuted(entries, perm)
            panics == overflow_checks /\ report_overflows(es, group_by)
        IN  \E order \in Perms(GroupKeys(es)) :
              rerun' = Some([entries |-> es,
                             hash_order |-> order,
                             pc |-> IF panics THEN "panic" ELSE "done",
                             report |-> IF panics THEN None
                                        ELSE Some(build_report(es, top,
                                                      group_by, order))])
    /\ UNCHANGED <<entry, bytes, url, key, values, p, pct, entries, top,
                   group_by, overflow_checks, hash_order, report, pc>>

NextPermute == BuildReport \/ Rerun

SpecPermute == InitPermute /\ [][NextPermute]_vars

----------------------------------------------------------------------------
(* C11: grouping is order-independent: for every entry sequence and every  *)
(* permutation of it, build_report grouped by host with the same top       *)
(* returns the same top_groups list: the same keys in the same positions,  *)
(* the same count, total_time_ms, total_bytes and p95_time_ms per key.     *)

\* both calls returned
Reran == Done /\ rerun # None /\ rerun[1].pc = "done"

\* top_groups of the second call
RerunGroups == rerun[1].report[1].top_groups

\* the f64 sum of the times of key k, added in the order of es
TimeSumOfKey(es, k) ==
    LET HasKey(e) == host_key(e.request.url) = k
    IN  FoldTime(0, SelectSeq(es, HasKey))

KeysOfRows(rows) == {rows[i].key : i \in 1..Len(rows)}

\* C11 as claimed: the two lists are the same
C11_PermutedGroupsIdentical ==
    Reran => RerunGroups = report.top_groups

\* C11 as amended: the two calls return or panic together; the lists have the
\* same length; a key in both lists has the same count, total_bytes and
\* p95_time_ms; with top at least the number of keys both lists hold the same
\* keys; and the lists are the same whenever every key's f64 sum of times is
\* the same in both orders
C11_PermutedGroups ==
    rerun # None =>
        /\ rerun[1].pc = pc
        /\ Reran =>
              LET a == report.top_groups
                  b == RerunGroups
              IN  /\ Len(a) = Len(b)
                  /\ \A i \in 1..Len(a) : \A j \in 1..Len(b) :
                        a[i].key = b[j].key =>
                            /\ a[i].count = b[j].count
                            /\ a[i].total_bytes = b[j].total_bytes
                            /\ a[i].p95_time_ms = b[j].p95_time_ms
                  /\ top >= Cardinality(DistinctKeys) =>
                        KeysOfRows(a) = KeysOfRows(b)
                  /\ (\A k \in DistinctKeys :
                        TimeSumOfKey(entries, k)
                            = TimeSumOfKey(rerun[1].entries, k))
                     => a = b

\* three entries of one host, the slowest moved from first to last: the
\* group's count is 3 in both calls and its total_time_ms differs
C11_Witness ==
    /\ Reran
    /\ Len(entries) = 3
    /\ rerun[1].entries = <<entries[2], entries[3], entries[1]>>
    /\ entries[1].time > entries[2].time
    /\ Len(report.top_groups) = 1 /\ Len(RerunGroups) = 1
    /\ report.top_groups[1].key = RerunGroups[1].key
    /\ report.top_groups[1].count = 3 /\ RerunGroups[1].count = 3
    /\ report.top_groups[1].total_time_ms # RerunGroups[1].total_time_ms

----------------------------------------------------------------------------
(* C12: the aggregation core has no fallible operation: entry_bytes,       *)
(* host_key, nearest_rank_percentile, build_top_groups and build_report    *)
(* return a value for every input, without reaching a panic; no u64        *)
(* addition of byte counts (body + headers of one entry, the running       *)
(* total_bytes of a group, the total_bytes of the report) overflows.       *)

\* the byte counts of the groups of es, over the unbounded integers
GroupByteSums(es) ==
    {LET HasKey(e) == host_key(e.request.url) = k
     IN  FoldBytes(0, SelectSeq(es, HasKey)) : k \in GroupKeys(es)}

\* no byte addition made for the entries es goes beyond u64
NoByteOverflow(es, gb) ==
    /\ \A i \in 1..Len(es) : ClaimBytes(es[i]) < U64Modulus
    /\ FoldBytes(0, es) < U64Modulus
    /\ gb # None => \A sum \in GroupByteSums(es) : sum < U64Modulus

C12_NoFallibleOperation ==
    /\ pc # "panic"
    /\ Done => NoByteOverflow(entries, group_by)

\* C12 as built: the one operation that fails is the u64 sum of the byte
\* counts of several entries: a call panics only with overflow checks on and
\* a byte total of 2^64 or more, and body + headers of one entry never
\* overflows
C12_OnlyByteTotalsOverflow ==
    /\ pc = "panic" =>
          /\ overflow_checks
          /\ entries # None
          /\ FoldBytes(0, entries) >= U64Modulus
    /\ entries # None =>
          \A i \in 1..Len(entries) : ClaimBytes(entries[i]) < U64Modulus
    /\ entry # None => ClaimBytes(entry[1]) < U64Modulus
    /\ Done /\ ~NoByteOverflow(entries, group_by) =>
          /\ ~overflow_checks
          /\ report.total_bytes = FoldBytes(0, entries) % U64Modulus

====
